---------------------------- MODULE Spec2Model ----------------------------
(***************************************************************************)
(* A model of qedit's terminal surface:                                    *)
(*   - src/src/render.rs : Cell, Grid, RenderBuffer (double-buffered diff  *)
(*     renderer that serialises the changed cells as ANSI codes);          *)
(*   - src/src/menu.rs   : Menu (modal, recursive take_over loop with      *)
(*     separator-skipping navigation).                                     *)
(* The render buffer is checked under SpecRender, the menu under SpecMenu. *)
(***************************************************************************)
EXTENDS Integers, Sequences, FiniteSets, TLC

VARIABLES
    \* ---- RenderBuffer (render.rs:125-133) ----
    size,       \* RenderBuffer.size : <<w, h>>
    front,      \* RenderBuffer.grids.0 : [size, cells]
    back,       \* RenderBuffer.grids.1 : [size, cells]
    fg,         \* RenderBuffer.fg
    bg,         \* RenderBuffer.bg
    out,        \* the String returned by the last render_ansi, as a token sequence
    emitted,    \* the (col,row) of the loop iteration that pushed each glyph of out
    term,       \* the terminal that receives every render_ansi output
    rhist,      \* history: whether the last operation was render_ansi, whether
                \* the one before it was render_ansi too,
                \* the number of set_cell/draw calls so far
    panic,      \* "" or the message of the panic that ended the program
    \* ---- Menu::take_over (menu.rs:175-217) ----
    root,       \* the Menu take_over was first called on
    stack,      \* the open take_over frames, outermost first
    call,       \* where the innermost frame is: "closed" (take_over not called),
                \* "loop" (waiting for a key), "nav" (inside previous()/next()),
                \* "ret" (a submenu's take_over has just returned), "done"
    result,     \* what the outermost take_over returned
    mhist,      \* history: keys read, the last key, the selection_index it found,
                \* the Action an Enter or a shortcut resolved to
    \* ---- MenuBar (menu.rs:6-9, 94-130) ----
    bar,        \* MenuBar: [selection_index, menus]
    bhist,      \* history: the last key MenuBar::maybe_handle_key_press got, the
                \* selection_index it found, the terminal width, what it returned
    \* ---- get_menu_shortcut_from_name (menu.rs:38-48) ----
    label       \* [name, ret]: a label and what shortcut resolution gave for it

rstate == <<size, front, back, fg, bg, out, emitted, term, rhist>>
mstate == <<root, stack, call, result, mhist>>
bvars  == <<bar, bhist, label>>

\* rvars: what Menu::take_over leaves alone; mvars: what RenderBuffer leaves alone
rvars == <<rstate, bvars>>
mvars == <<mstate, bvars>>
vars  == <<size, front, back, fg, bg, out, emitted, term, rhist, panic,
           root, stack, call, result, mhist, bar, bhist, label>>

-----------------------------------------------------------------------------
(* Bounds of the model *)

MaxW == 3
MaxH == 2
MaxWrites == 2
MaxKeys == 5
MaxLen == 3
MaxSkip == 5

-----------------------------------------------------------------------------
(* render.rs: Color, Cell, Grid *)

Color == {"White", "Black", "LightWhite", "Blue"}

DEFAULT_FG == "White"
DEFAULT_BG == "Black"

Cell(c, f, b) == [ch |-> c, fg |-> f, bg |-> b]

DefaultCell == Cell(" ", DEFAULT_FG, DEFAULT_BG)

\* vec![Cell::default(); size.w * size.h]
GridNew(sz) == [size |-> sz, cells |-> [i \in 1..(sz[1] * sz[2]) |-> DefaultCell]]

\* Vec::resize(new_len, value): truncate, or pad with value
VecResize(cells, n, v) ==
    [i \in 1..n |-> IF i <= Len(cells) THEN cells[i] ELSE v]
\* the mutation: the size is recorded, the cells are left as they are
GridResizeSizeOnly(g, new_size) == [g EXCEPT !.size = new_size]

GridResize(g, new_size) ==
    [size |-> new_size,
     cells |-> VecResize(g.cells, new_size[1] * new_size[2], DefaultCell)]

\* Option<T>: None is the empty sequence, Some(x) the one-element sequence
None == <<>>
Some(x) == <<x>>
Unwrap(o) == o[1]

\* the mutation: only the flat index is tested against the number of cells
idx_ofFlat(g, pos) ==
    IF g.size[1] * pos[2] + pos[1] < g.size[1] * g.size[2]
    THEN Some(g.size[1] * pos[2] + pos[1])
    ELSE None

\* Some(size.w * pos.y + pos.x) when pos.x < size.w and pos.y < size.h
idx_of(g, pos) ==
    IF pos[1] < g.size[1] /\ pos[2] < g.size[2]
    THEN Some(g.size[1] * pos[2] + pos[1])
    ELSE None

\* Vec::get(idx) is Some only for idx < len; cells is 1-indexed here
GridGet(g, pos) ==
    LET idx == idx_of(g, pos) IN
    IF idx = None THEN DefaultCell
    ELSE IF Unwrap(idx) + 1 <= Len(g.cells) THEN g.cells[Unwrap(idx) + 1]
         ELSE DefaultCell

\* get_mut panics when idx_of is None or the Vec has no such element
GridGetMutOk(g, pos) ==
    LET idx == idx_of(g, pos) IN idx # None /\ Unwrap(idx) + 1 <= Len(g.cells)

GridSet(g, pos, cell) ==
    LET idx == idx_of(g, pos) IN
    IF idx = None THEN g
    ELSE IF Unwrap(idx) + 1 <= Len(g.cells)
         THEN [g EXCEPT !.cells[Unwrap(idx) + 1] = cell]
         ELSE g

-----------------------------------------------------------------------------
(* render.rs: RenderBuffer drawing *)

\* set_cell: self.grids.1.set(pos, Cell(ch, self.fg, self.bg))
SetCellOn(g, pos, ch, f, b) == GridSet(g, pos, Cell(ch, f, b))

\* Draw::Text(s): for (i, c) in s.chars().enumerate() set_cell((ox + i, oy), c)
RECURSIVE DrawText(_, _, _, _, _, _)
DrawText(g, origin, s, i, f, b) ==
    IF i > Len(s) THEN g
    ELSE DrawText(SetCellOn(g, <<origin[1] + (i - 1), origin[2]>>, s[i], f, b),
                  origin, s, i + 1, f, b)

\* Draw::Rect(w, h): for x in 0..w, for y in 0..h set_cell((ox + x, oy + y), ' ')
RECURSIVE DrawRect(_, _, _, _, _, _, _)
DrawRect(g, origin, w, h, k, f, b) ==
    IF k >= w * h THEN g
    ELSE LET x == k \div h
             y == k % h
         IN DrawRect(SetCellOn(g, <<origin[1] + x, origin[2] + y>>, " ", f, b),
                     origin, w, h, k + 1, f, b)

-----------------------------------------------------------------------------
(* render.rs: RenderBuffer::render_ansi *)

\* Output tokens: cursor::Goto(x, y) (1-indexed), a foreground code, a background
\* code, one pushed character.
Goto(x, y) == [t |-> "goto", x |-> x, y |-> y]
FgCode(c)  == [t |-> "fg", c |-> c]
BgCode(c)  == [t |-> "bg", c |-> c]
Glyph(c)   == [t |-> "ch", c |-> c]

\* let mut last_pos = Vec2::one();
InitLastPos == <<1, 1>>

\* col.saturating_sub(1)
SaturatingSub1(n) == IF n = 0 THEN 0 ELSE n - 1

\* Mutants of CellDiffers: no diff at all; a diff of the glyphs only
CellDiffersAlways(f, b) == TRUE
CellDiffersGlyphOnly(f, b) == f.ch # b.ch

\* if *front != back
CellDiffers(f, b) == f # b

\* if last_pos != Vec2::new(col.saturating_sub(1), row)
NeedGoto(last_pos, col, row) == last_pos # <<SaturatingSub1(col), row>>

\* Mutant of Commit: the emitted cell is not copied to front
CommitDropped(g, pos, cell) == g

\* *front = back
Commit(g, pos, cell) == [g EXCEPT !.cells[Unwrap(idx_of(g, pos)) + 1] = cell]

ScanInit(f) ==
    [front |-> f, out |-> <<>>, emitted |-> <<>>, last_pos |-> InitLastPos,
     last_fg |-> DEFAULT_FG, last_bg |-> DEFAULT_BG, panic |-> ""]

\* One iteration of the loop body at (col, row).
ScanCell(st, b, col, row) ==
    IF ~GridGetMutOk(st.front, <<col, row>>)
    THEN [st EXCEPT !.panic = "Unable to get cell mutably: out of bounds"]
    ELSE
    LET f      == st.front.cells[Unwrap(idx_of(st.front, <<col, row>>)) + 1]
        bc     == GridGet(b, <<col, row>>)
        goto   == IF NeedGoto(st.last_pos, col, row)
                  THEN <<Goto(col + 1, row + 1)>> ELSE <<>>
        fgc    == IF st.last_fg # bc.fg THEN <<FgCode(bc.fg)>> ELSE <<>>
        bgc    == IF st.last_bg # bc.bg THEN <<BgCode(bc.bg)>> ELSE <<>>
    IN IF CellDiffers(f, bc)
       THEN [front    |-> Commit(st.front, <<col, row>>, bc),
             out      |-> st.out \o goto \o fgc \o bgc \o <<Glyph(bc.ch)>>,
             emitted  |-> Append(st.emitted, <<col, row>>),
             last_pos |-> <<col, row>>,
             last_fg  |-> bc.fg,
             last_bg  |-> bc.bg,
             panic    |-> ""]
       ELSE st

\* for row in 0..self.size.h { for col in 0..self.size.w { ... } }
RECURSIVE Scan(_, _, _, _)
Scan(st, b, sz, k) ==
    IF k >= sz[1] * sz[2] \/ st.panic # "" THEN st
    ELSE Scan(ScanCell(st, b, k % sz[1], k \div sz[1]), b, sz, k + 1)

render_ansi(f, b, sz) == Scan(ScanInit(f), b, sz, 0)

-----------------------------------------------------------------------------
(* The terminal that RenderBuffer::render writes the string to: a screen of  *)
(* cells, a cursor that advances one column per glyph, a current fg/bg that  *)
(* persists until changed.                                                   *)

TermPos == (0..(MaxW - 1)) \X (0..(MaxH - 1))

TermInit ==
    [screen |-> [p \in TermPos |-> DefaultCell],
     cur |-> <<0, 0>>, fg |-> DEFAULT_FG, bg |-> DEFAULT_BG]

TermStep(t, tok) ==
    CASE tok.t = "goto" -> [t EXCEPT !.cur = <<tok.x - 1, tok.y - 1>>]
      [] tok.t = "fg"   -> [t EXCEPT !.fg = tok.c]
      [] tok.t = "bg"   -> [t EXCEPT !.bg = tok.c]
      [] tok.t = "ch"   ->
            [screen |-> IF t.cur \in TermPos
                        THEN [t.screen EXCEPT ![t.cur] = Cell(tok.c, t.fg, t.bg)]
                        ELSE t.screen,
             cur |-> <<t.cur[1] + 1, t.cur[2]>>, fg |-> t.fg, bg |-> t.bg]

RECURSIVE TermFeed(_, _, _)
TermFeed(t, toks, i) ==
    IF i > Len(toks) THEN t ELSE TermFeed(TermStep(t, toks[i]), toks, i + 1)

-----------------------------------------------------------------------------
(* Inputs of the render buffer operations *)

FgInputs == {"White", "Blue"}
BgInputs == {"Black", "Blue"}

\* positions handed to set_cell: two neighbours, the last cell, one column and
\* one row beyond the buffer
Coords == {<<0, 0>>, <<1, 0>>, <<MaxW - 1, MaxH - 1>>, <<MaxW, 0>>, <<0, MaxH>>}

\* origins handed to draw: the first cell, the end of the first row
Origins == {<<0, 0>>, <<MaxW - 1, 0>>}

Texts == {<<"H", "i">>}

RectDims == {<<2, 2>>}

InitSize == <<MaxW, MaxH>>

Sizes == {<<MaxW, MaxH>>, <<MaxW - 1, MaxH>>}

-----------------------------------------------------------------------------
(* The render buffer as a state machine *)

\* RenderBuffer::new(size), nothing written to the terminal yet
RenderInit ==
    /\ size = InitSize
    /\ front = GridNew(InitSize)
    /\ back = GridNew(InitSize)
    /\ fg = DEFAULT_FG
    /\ bg = DEFAULT_BG
    /\ out = <<>>
    /\ emitted = <<>>
    /\ term = TermInit
    /\ rhist = [op |-> "other", repeat |-> FALSE, writes |-> 0]
    /\ panic = ""

\* no menu bar is in use, no label is being resolved
BarIdle ==
    /\ bar = [selection_index |-> 0, menus |-> <<>>]
    /\ bhist = [key |-> "", from |-> 0, width |-> 0, ret |-> None]
    /\ label = [name |-> <<>>, resolved |-> FALSE, ret |-> None]

\* no menu is open
MenuIdle ==
    /\ root = <<>>
    /\ stack = <<>>
    /\ call = [kind |-> "closed"]
    /\ result = None
    /\ mhist = [keys |-> 0, key |-> "", from |-> 0, chosen |-> None]

Did(op) ==
    rhist' = [op |-> IF op = "render_ansi" THEN op ELSE "other",
              repeat |-> (op = "render_ansi" /\ rhist.op = "render_ansi"),
              writes |-> rhist.writes +
                         (IF op \in {"set_cell", "draw_text", "draw_rect"}
                          THEN 1 ELSE 0)]

NoOutput == out' = <<>> /\ emitted' = <<>>

set_fg(c) ==
    /\ panic = ""
    /\ fg' = c
    /\ Did("set_fg")
    /\ NoOutput
    /\ UNCHANGED <<size, front, back, bg, term, panic, mvars>>

set_bg(c) ==
    /\ panic = ""
    /\ bg' = c
    /\ Did("set_bg")
    /\ NoOutput
    /\ UNCHANGED <<size, front, back, fg, term, panic, mvars>>

set_cell(pos, ch) ==
    /\ panic = "" /\ rhist.writes < MaxWrites
    /\ back' = SetCellOn(back, pos, ch, fg, bg)
    /\ Did("set_cell")
    /\ NoOutput
    /\ UNCHANGED <<size, front, fg, bg, term, panic, mvars>>

draw_text(origin, s) ==
    /\ panic = "" /\ rhist.writes < MaxWrites
    /\ back' = DrawText(back, origin, s, 1, fg, bg)
    /\ Did("draw_text")
    /\ NoOutput
    /\ UNCHANGED <<size, front, fg, bg, term, panic, mvars>>

draw_rect(origin, w, h) ==
    /\ panic = "" /\ rhist.writes < MaxWrites
    /\ back' = DrawRect(back, origin, w, h, 0, fg, bg)
    /\ Did("draw_rect")
    /\ NoOutput
    /\ UNCHANGED <<size, front, fg, bg, term, panic, mvars>>

\* RenderBuffer::resize
resize(new_size) ==
    /\ panic = ""
    /\ front' = GridResize(front, new_size)
    /\ back' = GridResize(back, new_size)
    /\ size' = new_size
    /\ Did("resize")
    /\ NoOutput
    /\ UNCHANGED <<fg, bg, term, panic, mvars>>

\* RenderBuffer::render_ansi, called directly: the string is returned
RenderAnsi ==
    /\ panic = ""
    /\ LET r == render_ansi(front, back, size) IN
        /\ front' = r.front
        /\ out' = r.out
        /\ emitted' = r.emitted
        /\ panic' = r.panic
    /\ Did("render_ansi")
    /\ UNCHANGED <<size, back, fg, bg, term, mvars>>

\* RenderBuffer::render: render_ansi, then the string is written to the terminal
render ==
    /\ panic = ""
    /\ LET r == render_ansi(front, back, size) IN
        /\ front' = r.front
        /\ out' = r.out
        /\ emitted' = r.emitted
        /\ panic' = r.panic
        /\ term' = TermFeed(term, r.out, 1)
    /\ Did("render_ansi")
    /\ UNCHANGED <<size, back, fg, bg, mvars>>

NextRender ==
    \/ \E c \in FgInputs : set_fg(c)
    \/ \E c \in BgInputs : set_bg(c)
    \/ \E pos \in Coords : set_cell(pos, "a")
    \/ \E o \in Origins, s \in Texts : draw_text(o, s)
    \/ \E o \in Origins, d \in RectDims : draw_rect(o, d[1], d[2])
    \/ \E sz \in Sizes : resize(sz)
    \/ RenderAnsi

InitRender == RenderInit /\ MenuIdle /\ BarIdle

SpecRender == InitRender /\ [][NextRender]_vars

\* A buffer of fixed size whose every render goes to the terminal
NextTerminal ==
    \/ \E c \in FgInputs : set_fg(c)
    \/ \E c \in BgInputs : set_bg(c)
    \/ \E pos \in Coords : set_cell(pos, "a")
    \/ \E o \in Origins, s \in Texts : draw_text(o, s)
    \/ \E o \in Origins, d \in RectDims : draw_rect(o, d[1], d[2])
    \/ render

InitTerminal == RenderInit /\ MenuIdle /\ BarIdle

SpecTerminal == InitTerminal /\ [][NextTerminal]_vars

-----------------------------------------------------------------------------
(* Properties of render_ansi *)

Extent(sz) == (0..(sz[1] - 1)) \X (0..(sz[2] - 1))

Rendered == rhist.op = "render_ansi" /\ panic = ""

\* how often render_ansi pushed the glyph of position p
RECURSIVE CountEmitted(_, _)
CountEmitted(e, p) ==
    IF e = <<>> THEN 0
    ELSE (IF Head(e) = p THEN 1 ELSE 0) + CountEmitted(Tail(e), p)

\* the cursor-position codes of a token sequence
Gotos(toks) == SelectSeq(toks, LAMBDA t : t.t = "goto")

\* whether a cursor-position code of toks targets position p
Targets(toks, p) ==
    \E i \in 1..Len(toks) : toks[i] = Goto(p[1] + 1, p[2] + 1)

\* the tokens of toks cut after each glyph: one segment per emitted cell
RECURSIVE Segments(_, _)
Segments(toks, cur) ==
    IF toks = <<>> THEN <<>>
    ELSE IF Head(toks).t = "ch"
         THEN <<Append(cur, Head(toks))>> \o Segments(Tail(toks), <<>>)
         ELSE Segments(Tail(toks), Append(cur, Head(toks)))

(* C1: after each render of a fixed-size buffer, the terminal fed with every
   render_ansi output shows, at every position, the glyph, foreground and
   background of the back (and front) grid's cell. *)
C1_TerminalEqualsBuffer ==
    Rendered =>
        \A p \in Extent(size) :
            /\ term.screen[p] = GridGet(back, p)
            /\ term.screen[p] = GridGet(front, p)

(* C2: immediately after render_ansi returns, front[pos] = back[pos] for every
   position inside the buffer's extent, whatever draws, colour changes,
   resizes and renders came before. *)
C2_RoundTrip ==
    Rendered =>
        \A p \in Extent(size) :
            /\ idx_of(front, p) # None
            /\ GridGet(front, p) = GridGet(back, p)

C2_Witness ==
    /\ Rendered
    /\ size # InitSize
    /\ emitted # <<>>
    /\ \E p \in Extent(size) : GridGet(front, p) # DefaultCell

(* C3: a render_ansi that directly follows a render_ansi returns the empty
   string and changes neither front nor back. *)
C3_Idempotence ==
    [][(rhist.op = "render_ansi" /\ rhist'.op = "render_ansi" /\ panic' = "")
         => (out' = <<>> /\ front' = front /\ back' = back)]_vars

C3_Witness ==
    /\ Rendered
    /\ rhist.repeat
    /\ out = <<>>
    /\ \E p \in Extent(size) : GridGet(front, p) # DefaultCell

(* C4: a render_ansi call emits no glyph and no cursor-position code for a
   position whose front and back cells were equal before the call and leaves
   that front cell unchanged; it emits exactly one glyph for every position
   whose cells differed. *)
C4_DiffMinimality ==
    [][(rhist'.op = "render_ansi" /\ panic' = "")
         => \A p \in Extent(size) :
              IF GridGet(front, p) = GridGet(back, p)
              THEN /\ CountEmitted(emitted', p) = 0
                   /\ ~Targets(out', p)
                   /\ GridGet(front', p) = GridGet(front, p)
              ELSE /\ CountEmitted(emitted', p) = 1
                   /\ Len(Segments(out', <<>>)) = Len(emitted')]_vars

C4_Witness ==
    /\ Rendered
    /\ emitted # <<>>
    /\ \E p \in Extent(size) :
          /\ CountEmitted(emitted, p) = 0
          /\ GridGet(front, p) # DefaultCell

(* C5: every emitted cell (col,row) is preceded by a cursor-position code to
   (row+1, col+1) unless the cell emitted just before it in the same call is
   (col-1,row); the first cell a call emits is always preceded by one. *)
C5_GotoUnlessAdjacent ==
    Rendered =>
        LET segs == Segments(out, <<>>) IN
        /\ Len(segs) = Len(emitted)
        /\ \A j \in 1..Len(emitted) :
              LET col == emitted[j][1]
                  row == emitted[j][2]
                  adjacent == j > 1 /\ col > 0 /\ emitted[j - 1] = <<col - 1, row>>
              IN Gotos(segs[j]) =
                    IF adjacent THEN <<>> ELSE <<Goto(col + 1, row + 1)>>

-----------------------------------------------------------------------------
(* menu.rs: Menu, MenuAction *)

\* one entry of Menu.children: (String, MenuAction); a label is a sequence of
\* characters
Separator(name)     == [name |-> name, kind |-> "Separator", action |-> "", menu |-> <<>>]
ActionEntry(name, a) == [name |-> name, kind |-> "Action", action |-> a, menu |-> <<>>]
SubMenu(name, m)    == [name |-> name, kind |-> "SubMenu", action |-> "", menu |-> m]

\* char::to_lowercase on the characters the model uses
ToLower(c) ==
    CASE c = "A" -> "a" [] c = "B" -> "b" [] c = "N" -> "n" [] c = "O" -> "o"
      [] c = "S" -> "s" [] c = "E" -> "e" [] c = "F" -> "f" [] c = "H" -> "h"
      [] OTHER -> c

\* the mutation: the character after the last '_' of the label
RECURSIVE get_menu_shortcut_from_nameLast(_)
get_menu_shortcut_from_nameLast(name) ==
    IF name = <<>> THEN None
    ELSE LET rest == get_menu_shortcut_from_nameLast(Tail(name)) IN
         IF rest # None THEN rest
         ELSE IF Head(name) = "_" /\ Tail(name) # <<>> THEN Some(Head(Tail(name)))
              ELSE None

\* get_menu_shortcut_from_name: the character after the first '_', Some(c);
\* a panic is None
RECURSIVE get_menu_shortcut_from_name(_)
get_menu_shortcut_from_name(name) ==
    IF name = <<>> THEN None                      \* "Menu item had no shortcut."
    ELSE IF Head(name) = "_"
         THEN IF Tail(name) = <<>> THEN None      \* '_' with no following letter
              ELSE Some(Head(Tail(name)))
         ELSE get_menu_shortcut_from_name(Tail(name))

Contains(name, c) == \E i \in 1..Len(name) : name[i] = c

\* the mutation: the marker is counted
DisplayLenRaw(name) == Len(name)

\* if name.contains("_") { name.len() - 1 } else { name.len() }
DisplayLen(name) == IF Contains(name, "_") THEN Len(name) - 1 ELSE Len(name)

RECURSIVE MaxDisplayLen(_)
MaxDisplayLen(children) ==
    IF Len(children) = 1 THEN DisplayLen(children[1].name)
    ELSE LET m == MaxDisplayLen(Tail(children))
             d == DisplayLen(Head(children).name)
         IN IF d >= m THEN d ELSE m

\* 2 + max(...).expect("Empty menu has no width"), for a non-empty menu
get_menu_width(children) == 2 + MaxDisplayLen(children)

\* the label formatting of Menu::render: chars.next().unwrap() after a '_'
RECURSIVE LabelPanics(_)
LabelPanics(name) ==
    IF name = <<>> THEN FALSE
    ELSE IF Head(name) = "_"
         THEN IF Tail(name) = <<>> THEN TRUE ELSE LabelPanics(Tail(Tail(name)))
         ELSE LabelPanics(Tail(name))

\* Menu::render panics on an empty menu (get_menu_width) and on a
\* non-Separator label with a '_' that no character follows
RenderPanics(children) ==
    \/ children = <<>>
    \/ \E i \in 1..Len(children) :
          children[i].kind # "Separator" /\ LabelPanics(children[i].name)

\* the mutation: Separators are not filtered out before the shortcuts are compared
RECURSIVE maybe_handle_key_pressNoSkip(_, _)
maybe_handle_key_pressNoSkip(children, key) ==
    IF children = <<>> THEN [panic |-> FALSE, found |-> None]
    ELSE LET c == Head(children)
             s == get_menu_shortcut_from_name(c.name)
         IN IF s = None THEN [panic |-> TRUE, found |-> None]
            ELSE IF ToLower(Unwrap(s)) = ToLower(key)
                 THEN [panic |-> FALSE, found |-> Some(c)]
                 ELSE maybe_handle_key_pressNoSkip(Tail(children), key)

\* Menu::maybe_handle_key_press: the first non-Separator child, in order, whose
\* shortcut equals the key case-insensitively: [panic, found]; the shortcut of
\* every child before the match is extracted, and that may panic
RECURSIVE maybe_handle_key_press(_, _)
maybe_handle_key_press(children, key) ==
    IF children = <<>> THEN [panic |-> FALSE, found |-> None]
    ELSE LET c == Head(children) IN
         IF c.kind = "Separator"
         THEN maybe_handle_key_press(Tail(children), key)
         ELSE LET sc == get_menu_shortcut_from_name(c.name) IN
              IF sc = None THEN [panic |-> TRUE, found |-> None]
              ELSE IF ToLower(Unwrap(sc)) = ToLower(key)
                   THEN [panic |-> FALSE, found |-> Some(c)]
                   ELSE maybe_handle_key_press(Tail(children), key)

\* Mutants of the wrapping steps: clamp at the end instead of wrapping
NextIndexClamped(len, i) == IF i + 1 >= len THEN i ELSE i + 1
PreviousIndexClamped(len, i) == IF i - 1 < 0 THEN 0 ELSE i - 1

\* next: if selection_index + 1 >= len { 0 } else { selection_index + 1 }
NextIndex(len, i) == IF i + 1 >= len THEN 0 ELSE i + 1

\* previous: if selection_index as isize - 1 < 0 { len - 1 } else { selection_index - 1 }
PreviousIndex(len, i) == IF i - 1 < 0 THEN len - 1 ELSE i - 1

\* Mutants of Propagates: the parent ignores what the submenu returned; the
\* parent returns whatever the submenu returned
PropagatesNever(val) == FALSE
PropagatesAlways(val) == TRUE

\* match menu.take_over(..) { Some(action) => return Some(action), _ => {} }
Propagates(val) == val # None

-----------------------------------------------------------------------------
(* menu.rs: Menu::take_over as a state machine. Each open take_over call is a *)
(* frame [menu, x_offset, selection_index]; the innermost frame is the last.  *)

Top == stack[Len(stack)]

Frame(m, x) == [menu |-> m, x_offset |-> x, selection_index |-> 0]

\* let mut selection_index = 0usize; loop { self.render(..); ...
\* entering take_over on menu m: the first render may panic
Enter(frames, m, x) ==
    IF RenderPanics(m)
    THEN /\ panic' = "render"
         /\ UNCHANGED <<stack, call, result>>
    ELSE /\ stack' = Append(frames, Frame(m, x))
         /\ call' = [kind |-> "loop"]
         /\ UNCHANGED <<panic, result>>

\* the innermost take_over returns val: to its parent frame, or to the host
Return(val) ==
    /\ stack' = SubSeq(stack, 1, Len(stack) - 1)
    /\ IF Len(stack) = 1
       THEN call' = [kind |-> "done"] /\ result' = val
       ELSE call' = [kind |-> "ret", val |-> val] /\ UNCHANGED result
    /\ UNCHANGED panic

\* Enter on, or a shortcut resolved to, the entry e of the innermost menu
Activate(e) ==
    CASE e.kind = "Separator" ->
            /\ panic' = "unreachable"
            /\ UNCHANGED <<stack, call, result>>
      [] e.kind = "Action" -> Return(Some(e.action))
      [] e.kind = "SubMenu" ->
            Enter(stack, e.menu, Top.x_offset + get_menu_width(Top.menu))

Chosen(e) == IF e.kind = "Action" THEN Some(e.action) ELSE None

\* menu.rs:175-176: the host calls take_over on the root menu
TakeOver(x) ==
    /\ call.kind = "closed" /\ panic = ""
    /\ Enter(<<>>, root, x)
    /\ UNCHANGED <<root, mhist, rvars>>

\* if let Some(k) = std::io::stdin().keys().next(): the innermost frame reads
Reading == call.kind = "loop" /\ panic = "" /\ mhist.keys < MaxKeys

Read(k, chosen) ==
    mhist' = [keys |-> mhist.keys + 1, key |-> k,
              from |-> Top.selection_index, chosen |-> chosen]

\* Key::Up => selection_index = self.previous(selection_index): the call starts
KeyUp ==
    /\ Reading
    /\ UNCHANGED <<root, rvars>>
    /\ call' = [kind |-> "nav", dir |-> "previous", idx |-> Top.selection_index,
                depth |-> 1]
    /\ Read("Up", None)
    /\ UNCHANGED <<stack, result, panic>>

\* Key::Down => selection_index = self.next(selection_index): the call starts
KeyDown ==
    /\ Reading
    /\ UNCHANGED <<root, rvars>>
    /\ call' = [kind |-> "nav", dir |-> "next", idx |-> Top.selection_index,
                depth |-> 1]
    /\ Read("Down", None)
    /\ UNCHANGED <<stack, result, panic>>

\* Key::Char('\n') => match &self.children[selection_index].1 { ... }
KeyEnter ==
    /\ Reading
    /\ UNCHANGED <<root, rvars>>
    /\ LET e == Top.menu[Top.selection_index + 1] IN
        Activate(e) /\ Read("Enter", Chosen(e))

\* Key::Char(c) => if let Some(menu_action) = self.maybe_handle_key_press(c)
KeyChar(c) ==
    /\ Reading
    /\ UNCHANGED <<root, rvars>>
    /\ LET r == maybe_handle_key_press(Top.menu, c) IN
        IF r.panic
        THEN /\ panic' = "shortcut"
             /\ Read(c, None)
             /\ UNCHANGED <<stack, call, result>>
        ELSE IF r.found # None
             THEN Activate(Unwrap(r.found)) /\ Read(c, Chosen(Unwrap(r.found)))
             ELSE Return(None) /\ Read(c, None)       \* break; ... None

\* _ => break
KeyOther ==
    /\ Reading
    /\ UNCHANGED <<root, rvars>>
    /\ Return(None)
    /\ Read("Esc", None)

\* one invocation of previous()/next(): wrap, then look at the entry
NavTarget ==
    IF call.dir = "next" THEN NextIndex(Len(Top.menu), call.idx)
    ELSE PreviousIndex(Len(Top.menu), call.idx)

\* (_, MenuAction::Separator) => return self.next(selection_index)
NavRecurse ==
    /\ call.kind = "nav" /\ panic = "" /\ call.depth < MaxSkip
    /\ Top.menu[NavTarget + 1].kind = "Separator"
    /\ call' = [call EXCEPT !.idx = NavTarget, !.depth = @ + 1]
    /\ UNCHANGED <<root, stack, result, mhist, panic, rvars>>

\* _ => {} ... selection_index: the value is assigned in take_over
NavReturn ==
    /\ call.kind = "nav" /\ panic = ""
    /\ Top.menu[NavTarget + 1].kind # "Separator"
    /\ stack' = [stack EXCEPT ![Len(stack)].selection_index = NavTarget]
    /\ call' = [kind |-> "loop"]
    /\ UNCHANGED <<root, result, mhist, panic, rvars>>

\* menu.rs:192-195, 203-206: the frame that opened a submenu gets its result
SubMenuReturned ==
    /\ call.kind = "ret" /\ panic = ""
    /\ IF Propagates(call.val)
       THEN Return(call.val)
       ELSE /\ call' = [kind |-> "loop"]
            /\ UNCHANGED <<stack, result, panic>>
    /\ UNCHANGED <<root, mhist, rvars>>

-----------------------------------------------------------------------------
(* The menus and keys of the model *)

M_File ==
    << ActionEntry(<<"_", "a">>, "About"),
       Separator(<<>>),
       ActionEntry(<<"S", "a", "_", "v", "e">>, "Save") >>

M_Recent ==
    << SubMenu(<<"_", "b", "x">>, M_File),
       ActionEntry(<<"_", "N", "e", "w">>, "New") >>

M_Main ==
    << ActionEntry(<<"C", "_", "a">>, "Close"),
       Separator(<<"_", "n">>),
       SubMenu(<<"_", "O", "p">>, M_Recent),
       Separator(<<>>) >>

M_SeparatorFirst ==
    << Separator(<<>>), ActionEntry(<<"_", "a">>, "Open") >>

M_AllSeparators == << Separator(<<>>), Separator(<<>>) >>

M_Empty == <<>>

Menus == {M_File, M_Recent, M_Main, M_SeparatorFirst, M_AllSeparators, M_Empty}

Chars == {"a", "B", "n", "o", "z"}

XOffsets == {1}

NextMenu ==
    \/ \E x \in XOffsets : TakeOver(x)
    \/ KeyUp
    \/ KeyDown
    \/ KeyEnter
    \/ \E c \in Chars : KeyChar(c)
    \/ KeyOther
    \/ NavRecurse
    \/ NavReturn
    \/ SubMenuReturned

InitMenu ==
    /\ RenderInit
    /\ BarIdle
    /\ root \in Menus
    /\ stack = <<>>
    /\ call = [kind |-> "closed"]
    /\ result = None
    /\ mhist = [keys |-> 0, key |-> "", from |-> 0, chosen |-> None]

SpecMenu == InitMenu /\ [][NextMenu]_vars

\* previous()/next() called on any menu of up to MaxLen entries with any index
NavEntries == {Separator(<<>>), ActionEntry(<<"_", "a">>, "New")}

NavMenus == UNION {[1..n -> NavEntries] : n \in 1..MaxLen}

InitNav ==
    /\ RenderInit
    /\ BarIdle
    /\ root \in NavMenus
    /\ result = None
    /\ \E i \in 0..(MaxLen - 1), d \in {"previous", "next"} :
          /\ i < Len(root)
          /\ stack = <<[menu |-> root, x_offset |-> 1, selection_index |-> i]>>
          /\ call = [kind |-> "nav", dir |-> d, idx |-> i, depth |-> 1]
          /\ mhist = [keys |-> 1, key |-> IF d = "next" THEN "Down" ELSE "Up",
                      from |-> i, chosen |-> None]

NextNav == NavRecurse \/ NavReturn

SpecNav == InitNav /\ [][NextNav]_vars

-----------------------------------------------------------------------------
(* Properties of Menu::take_over *)

HasEntry(m) == \E i \in 1..Len(m) : m[i].kind # "Separator"

IsSeparatorAt(m, i) == m[i + 1].kind = "Separator"

\* the first non-Separator index going cyclically forward from i + 1
FirstForward(m, i) ==
    LET n == Len(m)
        k == CHOOSE k \in 1..n :
                /\ ~IsSeparatorAt(m, (i + k) % n)
                /\ \A j \in 1..(k - 1) : IsSeparatorAt(m, (i + j) % n)
    IN (i + k) % n

\* the first non-Separator index going cyclically backward from i - 1
FirstBackward(m, i) ==
    LET n == Len(m)
        k == CHOOSE k \in 1..n :
                /\ ~IsSeparatorAt(m, (i + n - k) % n)
                /\ \A j \in 1..(k - 1) : IsSeparatorAt(m, (i + n - j) % n)
    IN (i + n - k) % n

\* k is neither Up, Down, Enter nor the shortcut of a non-Separator entry of m
Dismisses(m, k) ==
    /\ k \notin {"Up", "Down", "Enter"}
    /\ \A i \in 1..Len(m) :
          m[i].kind # "Separator" =>
             \A j \in 1..(Len(m[i].name) - 1) :
                (m[i].name[j] = "_" /\ \A h \in 1..(j - 1) : m[i].name[h] # "_")
                   => ToLower(m[i].name[j + 1]) # ToLower(k)

(* C6: while a menu with at least one non-Separator entry is open, its
   selection_index is within [0, children.length) and never on a Separator,
   from the moment it opens, so Enter never acts on a Separator. *)
C6_SelectionNeverOnSeparator ==
    /\ panic # "unreachable"
    /\ \A i \in 1..Len(stack) :
          HasEntry(stack[i].menu) =>
             /\ stack[i].selection_index \in 0..(Len(stack[i].menu) - 1)
             /\ ~IsSeparatorAt(stack[i].menu, stack[i].selection_index)

(* C7: in a menu with at least one non-Separator entry, Down from any index i
   returns the first non-Separator index going cyclically forward from i+1,
   and Up the first going cyclically backward from i-1. *)
C7_SkipsSeparatorsCyclically ==
    (call.kind = "loop" /\ mhist.key \in {"Up", "Down"}) =>
        /\ HasEntry(Top.menu)
        /\ Top.selection_index =
              IF mhist.key = "Down" THEN FirstForward(Top.menu, mhist.from)
              ELSE FirstBackward(Top.menu, mhist.from)

C7_Witness ==
    /\ call.kind = "loop"
    /\ Len(root) = 3
    /\ ~IsSeparatorAt(root, 0) /\ IsSeparatorAt(root, 1) /\ ~IsSeparatorAt(root, 2)
    /\ mhist.key = "Down" /\ mhist.from = 0
    /\ Top.selection_index = 2

(* C8: once Enter or a shortcut has resolved to an Action, at any nesting
   depth, no frame reads another key: each open frame in turn returns that
   Action, and the outermost take_over returns exactly it. *)
C8_ActionPropagates ==
    mhist.chosen # None =>
        /\ call.kind \in {"ret", "done"}
        /\ call.kind = "ret" =>
              /\ call.val = mhist.chosen
              /\ stack # <<>>
              /\ ENABLED SubMenuReturned
        /\ call.kind = "done" => (result = mhist.chosen /\ stack = <<>>)

C8_Witness ==
    /\ root = M_Main
    /\ call.kind = "done"
    /\ mhist.chosen = Some("About")
    /\ result = Some("About")

(* C9: a key that is not Up, Down, Enter or a matching shortcut ends only the
   innermost frame, with None; a parent frame is never changed while its
   submenu is open, gets None, stays open and goes back to reading keys; only
   at depth 1 does None reach the host. *)
C9_DismissClosesInnermost ==
    [][/\ (mhist'.keys = mhist.keys + 1 /\ Dismisses(Top.menu, mhist'.key))
           => /\ panic' = ""
              /\ stack' = SubSeq(stack, 1, Len(stack) - 1)
              /\ IF Len(stack) = 1
                 THEN call'.kind = "done" /\ result' = None
                 ELSE call' = [kind |-> "ret", val |-> None] /\ result' = result
       /\ (call.kind = "ret" /\ call.val = None /\ call' # call)
           => (stack' = stack /\ call'.kind = "loop")
       /\ \A i \in 1..(Len(stack) - 1) :
             i <= Len(stack') => stack'[i] = stack[i]]_vars

C9_Witness ==
    /\ root = M_Main
    /\ mhist.key = "Esc"
    /\ call.kind = "loop"
    /\ Len(stack) = 1
    /\ Top.selection_index = 2

(* C10: in a menu whose every entry is a Separator an Up or Down step ends:
   previous()/next() is not invoked again once it has looked at every entry
   (a full cycle). *)
C10_NavigationGuarded ==
    call.kind = "nav" => call.depth <= Len(Top.menu)

-----------------------------------------------------------------------------
(* MenuBar (menu.rs:6-9, 94-130).  An entry of menus is a pair (String, Menu),
   here [name, menu]; indices are the source's, counted from 0. *)

MaxLabel == 4                \* longest label given to shortcut resolution

L_File == <<"_", "F", "i", "l", "e">>
L_Edit == <<"_", "E", "d", "i", "t">>
L_Help == <<"_", "H", "e", "l", "p">>
L_Find == <<"_", "F", "i", "n", "d">>
L_Save == <<"S", "a", "_", "v", "e">>

BarEntry(name, m) == [name |-> name, menu |-> m]

\* terminal_size().unwrap().0 - 7
HelpOffset == 7
U16 == 65536

\* the mutation: every menu is placed by the running sum, "_Help" included
get_origin_x_of_menuNoHelp(menus, idx, width) ==
    LET RECURSIVE Sum(_)
        Sum(k) == IF k = 0 THEN 0 ELSE Len(menus[k].name) + Sum(k - 1)
    IN (1 + Sum(idx) + (idx + 1) * 1) % U16

\* the mutation: the (idx + 1) columns of padding are forgotten
get_origin_x_of_menuNoPad(menus, idx, width) ==
    LET RECURSIVE Sum(_)
        Sum(k) == IF k = 0 THEN 0 ELSE Len(menus[k].name) + Sum(k - 1)
    IN IF menus[idx + 1].name = L_Help
       THEN (width - HelpOffset) % U16
       ELSE (1 + Sum(idx)) % U16

\* get_origin_x_of_menu(idx): "_Help" sits 7 columns from the right edge; any
\* other menu at 1 + the sum of name.len() of the menus before it + (idx + 1),
\* as u16.  width is what termion::terminal_size() answers.
get_origin_x_of_menu(menus, idx, width) ==
    LET RECURSIVE Sum(_)
        Sum(k) == IF k = 0 THEN 0 ELSE Len(menus[k].name) + Sum(k - 1)
    IN IF menus[idx + 1].name = L_Help
       THEN (width - HelpOffset) % U16
       ELSE (1 + Sum(idx) + (idx + 1) * 1) % U16

\* the mutations of the MenuBar's Right and Left: stop at the ends
BarRightClamped(len, i) == IF i + 1 >= len THEN i ELSE i + 1
BarLeftClamped(len, i) == IF i - 1 < 0 THEN 0 ELSE i - 1

\* Key::Right => if selection_index + 1 >= menus.len() { 0 } else { +1 }
BarRight(len, i) == IF i + 1 >= len THEN 0 ELSE i + 1

\* Key::Left => if selection_index as isize - 1 < 0 { menus.len() - 1 } else { -1 }
BarLeft(len, i) == IF i - 1 < 0 THEN len - 1 ELSE i - 1

\* the mutation: the shortcut is compared as typed
ShortcutMatchesExact(c, key) == c = ToLower(key)

\* c.to_lowercase().next().unwrap() == key, key lowercased before the loop
ShortcutMatches(c, key) == ToLower(c) = ToLower(key)

\* the loop of Key::Char(key) over menus from index i on: the index of the first
\* menu whose shortcut matches; a label without a shortcut met on the way panics
RECURSIVE BarFind(_, _, _)
BarFind(menus, key, i) ==
    IF i >= Len(menus) THEN [panic |-> FALSE, found |-> None]
    ELSE LET s == get_menu_shortcut_from_name(menus[i + 1].name) IN
         IF s = None THEN [panic |-> TRUE, found |-> None]
         ELSE IF ShortcutMatches(Unwrap(s), key)
              THEN [panic |-> FALSE, found |-> Some(i)]
              ELSE BarFind(menus, key, i + 1)

\* Some((menu, origin_x))
BarSome(menus, i, width) ==
    Some([menu |-> menus[i + 1].menu, x |-> get_origin_x_of_menu(menus, i, width)])

BarReading == bar.menus # <<>> /\ panic = ""

BarRead(k, w, ret) ==
    bhist' = [key |-> k, from |-> bar.selection_index, width |-> w, ret |-> ret]

KeyRight ==
    /\ BarReading
    /\ bar' = [bar EXCEPT !.selection_index =
                   BarRight(Len(bar.menus), bar.selection_index)]
    /\ BarRead("Right", 0, None)
    /\ UNCHANGED <<rstate, mstate, panic, label>>

KeyLeft ==
    /\ BarReading
    /\ bar' = [bar EXCEPT !.selection_index =
                   BarLeft(Len(bar.menus), bar.selection_index)]
    /\ BarRead("Left", 0, None)
    /\ UNCHANGED <<rstate, mstate, panic, label>>

\* Key::Char('\n') => return Some((&menus[selection_index].1, origin))
BarEnter(w) ==
    /\ BarReading
    /\ BarRead("Enter", w, BarSome(bar.menus, bar.selection_index, w))
    /\ UNCHANGED <<rstate, mstate, panic, label, bar>>

\* the mutation: a shortcut also moves the selection to the menu it found
BarCharSelecting(c, w) ==
    /\ BarReading
    /\ LET r == BarFind(bar.menus, c, 0) IN
        IF r.panic
        THEN panic' = "shortcut" /\ BarRead(c, w, None) /\ UNCHANGED bar
        ELSE /\ UNCHANGED panic
             /\ bar' = IF r.found = None THEN bar
                       ELSE [bar EXCEPT !.selection_index = Unwrap(r.found)]
             /\ BarRead(c, w, IF r.found = None THEN None
                              ELSE BarSome(bar.menus, Unwrap(r.found), w))
    /\ UNCHANGED <<rstate, mstate, label>>

\* Key::Char(key) => the first menu whose shortcut is key, else None
BarChar(c, w) ==
    /\ BarReading
    /\ LET r == BarFind(bar.menus, c, 0) IN
        IF r.panic
        THEN panic' = "shortcut" /\ BarRead(c, w, None)
        ELSE /\ UNCHANGED panic
             /\ BarRead(c, w, IF r.found = None THEN None
                              ELSE BarSome(bar.menus, Unwrap(r.found), w))
    /\ UNCHANGED <<rstate, mstate, label, bar>>

\* _ => {}
BarOther ==
    /\ BarReading
    /\ BarRead("Other", 0, None)
    /\ UNCHANGED <<rstate, mstate, panic, label, bar>>

Bars ==
    { << BarEntry(L_File, M_File), BarEntry(L_Edit, M_Recent),
         BarEntry(L_Help, M_Main) >>,
      << BarEntry(L_Help, M_Main), BarEntry(L_File, M_File) >>,
      << BarEntry(L_File, M_File), BarEntry(L_Find, M_Recent),
         BarEntry(L_Save, M_Main) >>,
      << BarEntry(L_Save, M_File) >> }

BarChars == {"f", "F", "e", "H", "v", "z"}
Widths == {7, 80}

InitBar ==
    /\ RenderInit
    /\ MenuIdle
    /\ bar \in {[selection_index |-> 0, menus |-> m] : m \in Bars}
    /\ bhist = [key |-> "", from |-> 0, width |-> 0, ret |-> None]
    /\ label = [name |-> <<>>, resolved |-> FALSE, ret |-> None]

NextBar ==
    \/ KeyRight
    \/ KeyLeft
    \/ \E w \in Widths : BarEnter(w)
    \/ \E c \in BarChars, w \in Widths : BarChar(c, w)
    \/ BarOther

SpecBar == InitBar /\ [][NextBar]_vars

-----------------------------------------------------------------------------
(* get_menu_shortcut_from_name as a function of the label (menu.rs:38-48) *)

RECURSIVE SeqsUpTo(_, _)
SeqsUpTo(S, n) ==
    IF n = 0 THEN { <<>> }
    ELSE LET shorter == SeqsUpTo(S, n - 1)
         IN shorter \cup { <<c>> \o t : c \in S, t \in {u \in shorter : Len(u) = n - 1} }

LabelChars == {"_", "F", "v"}
Labels == SeqsUpTo(LabelChars, MaxLabel)

Resolve ==
    /\ ~label.resolved
    /\ panic = ""
    /\ LET s == get_menu_shortcut_from_name(label.name) IN
        /\ label' = [label EXCEPT !.resolved = TRUE, !.ret = s]
        /\ panic' = IF s # None THEN ""
                    ELSE IF Contains(label.name, "_")
                         THEN "Menu item name had '_' with no following shortcut letter."
                         ELSE "Menu item had no shortcut."
    /\ UNCHANGED <<rstate, mstate, bar, bhist>>

InitShortcut ==
    /\ RenderInit
    /\ MenuIdle
    /\ bar = [selection_index |-> 0, menus |-> <<>>]
    /\ bhist = [key |-> "", from |-> 0, width |-> 0, ret |-> None]
    /\ label \in {[name |-> n, resolved |-> FALSE, ret |-> None] : n \in Labels}

NextShortcut == Resolve

SpecShortcut == InitShortcut /\ [][NextShortcut]_vars

-----------------------------------------------------------------------------
(* C11: MenuBar wraparound.  In a bar of n >= 1 menus the selection_index
   stays in [0, n) after every key; Right moves it from i to (i + 1) mod n and
   Left from i to (i - 1 + n) mod n. *)
C11_Wraparound ==
    LET n == Len(bar.menus) IN
    n >= 1 =>
        /\ bar.selection_index \in 0..(n - 1)
        /\ bhist.key = "Right" => bar.selection_index = (bhist.from + 1) % n
        /\ bhist.key = "Left" => bar.selection_index = (bhist.from - 1 + n) % n

\* Right on the last of three menus has wrapped to the first
C11_Witness ==
    /\ Len(bar.menus) = 3
    /\ bhist.key = "Right"
    /\ bhist.from = 2
    /\ bar.selection_index = 0

-----------------------------------------------------------------------------
\* the character that follows the underscore of a label with one marker
MarkedChar(name) == name[(CHOOSE j \in 1..Len(name) : name[j] = "_") + 1]

\* the indices of the bar's menus whose shortcut is key, whatever the case
BarHits(menus, key) ==
    { i \in 0..(Len(menus) - 1) : ToLower(MarkedChar(menus[i + 1].name)) = ToLower(key) }

Least(S) == CHOOSE i \in S : \A j \in S : i <= j

(* C12: MenuBar shortcut dispatch.  A character key (other than Enter) gives
   the first menu, in declaration order, whose shortcut equals the key
   case-insensitively, together with that menu's X-origin; when no menu's
   shortcut matches the key is unhandled (None). *)
C12_ShortcutDispatch ==
    (bhist.key \in BarChars /\ panic = "") =>
        LET hits == BarHits(bar.menus, bhist.key) IN
        IF hits = {} THEN bhist.ret = None
        ELSE bhist.ret =
               Some([menu |-> bar.menus[Least(hits) + 1].menu,
                     x |-> get_origin_x_of_menu(bar.menus, Least(hits), bhist.width)])

\* 'f' typed on a bar whose first two menus both have the shortcut 'F': the first
C12_Witness ==
    /\ bhist.key = "f"
    /\ Len(bar.menus) = 3
    /\ bar.menus[2].name = L_Find
    /\ bhist.ret # None
    /\ Unwrap(bhist.ret).menu = M_File

-----------------------------------------------------------------------------
\* the index get_origin_x_of_menu was called with by the last key: the
\* selection for Enter, the matching menu for a shortcut
OriginIndex ==
    IF bhist.key = "Enter" THEN bhist.from ELSE Least(BarHits(bar.menus, bhist.key))

\* a label as shown: the shortcut marker stripped
DisplayLength(name) == Cardinality({ j \in 1..Len(name) : name[j] # "_" })

RECURSIVE SumBefore(_, _, _)
SumBefore(F(_), menus, i) ==
    IF i = 0 THEN 0 ELSE F(menus[i].name) + SumBefore(F, menus, i - 1)

FullLength(name) == Len(name)

(* C13, as claimed: the X-origin of a menu at index i that is not the "_Help"
   entry is 1 + the sum of the display lengths (marker stripped) of the labels
   before it + (i + 1). *)
C13_OriginByDisplayLength ==
    (bhist.ret # None /\ bar.menus[OriginIndex + 1].name # L_Help) =>
        Unwrap(bhist.ret).x =
            1 + SumBefore(DisplayLength, bar.menus, OriginIndex) + (OriginIndex + 1)

(* C13, as the code has it: the X-origin of a menu at index i that is not the
   "_Help" entry is 1 + the sum of the full lengths (marker included) of the
   labels before it + (i + 1), as a 16-bit value. *)
C13_OriginByLabelLength ==
    (bhist.ret # None /\ bar.menus[OriginIndex + 1].name # L_Help) =>
        Unwrap(bhist.ret).x =
            (1 + SumBefore(FullLength, bar.menus, OriginIndex) + (OriginIndex + 1)) % U16

\* Enter on the third menu, after two labels that carry a marker
C13_Witness ==
    /\ bhist.key = "Enter"
    /\ bhist.from = 2
    /\ bar.menus[3].name = L_Save
    /\ bhist.ret # None
    /\ Unwrap(bhist.ret).x = 14

-----------------------------------------------------------------------------
(* C14: Help placement.  Whatever its index and whatever the other labels,
   the X-origin of the "_Help" entry is the terminal width - 7, for every
   terminal width of at least 7 (73 on a terminal 80 columns wide). *)
C14_HelpPlacement ==
    (/\ bhist.ret # None
     /\ bar.menus[OriginIndex + 1].name = L_Help
     /\ bhist.width >= HelpOffset) =>
        Unwrap(bhist.ret).x = bhist.width - 7

\* the shortcut 'h' of "_Help", declared first, on a terminal 80 columns wide
C14_Witness ==
    /\ bhist.key = "H"
    /\ bhist.width = 80
    /\ bar.menus[1].name = L_Help
    /\ Len(bar.menus) = 2
    /\ bhist.ret = Some([menu |-> M_Main, x |-> 73])

-----------------------------------------------------------------------------
Underscores(name) == { j \in 1..Len(name) : name[j] = "_" }

\* exactly one underscore, and a character after it
OneMarker(name) ==
    /\ Cardinality(Underscores(name)) = 1
    /\ \A j \in Underscores(name) : j < Len(name)

(* C15, as claimed: a label with exactly one underscore followed by a
   character gives that character; every other label (no underscore, or more
   than one) makes shortcut resolution fault. *)
C15_ExactlyOneMarker ==
    label.resolved =>
        IF OneMarker(label.name)
        THEN label.ret = Some(MarkedChar(label.name)) /\ panic = ""
        ELSE label.ret = None /\ panic # ""

(* C15, as the code has it: a label whose first underscore is followed by a
   character gives that character, however many underscores come after it;
   resolution faults exactly for the labels with no underscore and those whose
   first underscore is their last character. *)
C15_FirstMarker ==
    label.resolved =>
        LET u == Underscores(label.name) IN
        IF u = {} \/ Least(u) = Len(label.name)
        THEN label.ret = None /\ panic # ""
        ELSE label.ret = Some(label.name[Least(u) + 1]) /\ panic = ""

\* a label with two markers resolved to the character after the first
C15_Witness ==
    /\ label.resolved
    /\ label.name = <<"_", "F", "_", "v">>
    /\ label.ret = Some("F")
    /\ panic = ""

-----------------------------------------------------------------------------
\* the cell of grid g at position p, read row-major
CellAt(g, p) == g.cells[g.size[1] * p[2] + p[1] + 1]

\* the most recent colour code of the given kind among toks[1..j]; prior when
\* there is none
RECURSIVE LastCode(_, _, _, _)
LastCode(kind, prior, toks, j) ==
    IF j = 0 THEN prior
    ELSE IF toks[j].t = kind THEN toks[j].c
         ELSE LastCode(kind, prior, toks, j - 1)

GlyphsUpTo(toks, j) == Cardinality({ i \in 1..j : toks[i].t = "ch" })

(* C16: colour tracking across renders.  Whenever a render emits a glyph, the
   most recent foreground code of the whole output stream so far (White when
   there is none) is the foreground of that glyph's cell, and likewise for the
   background (Black); and a colour code is emitted only when it differs from
   the last one emitted.  term.fg and term.bg are the last codes of the
   stream before this render. *)
C16_ColourTracking ==
    [][ (rhist'.op = "render_ansi" /\ panic' = "") =>
          \A j \in 1..Len(out') :
            /\ out'[j].t = "ch" =>
                 LET cell == CellAt(back, emitted'[GlyphsUpTo(out', j)]) IN
                 /\ LastCode("fg", term.fg, out', j) = cell.fg
                 /\ LastCode("bg", term.bg, out', j) = cell.bg
            /\ out'[j].t = "fg" => out'[j].c # LastCode("fg", term.fg, out', j - 1)
            /\ out'[j].t = "bg" => out'[j].c # LastCode("bg", term.bg, out', j - 1)
      ]_vars

-----------------------------------------------------------------------------
\* the places (from 1) of the children that are no Separator and whose
\* shortcut is key, whatever the case
MenuHits(children, key) ==
    { i \in 1..Len(children) :
        /\ children[i].kind # "Separator"
        /\ ToLower(MarkedChar(children[i].name)) = ToLower(key) }

(* C17: Menu shortcut keys.  Inside an open menu a character key acts on the
   first child, in declaration order, that is not a Separator and whose
   shortcut equals the key case-insensitively, with the outcome Enter has on
   that child (an Action is returned, a SubMenu is opened); Separators never
   match, whatever their label; a key that matches no child dismisses the
   menu. *)
C17_MenuShortcut ==
    [][ (mhist'.keys = mhist.keys + 1 /\ mhist'.key \in Chars) =>
          LET hits == MenuHits(Top.menu, mhist'.key) IN
          IF hits = {} THEN Return(None)
          ELSE Activate(Top.menu[Least(hits)])
      ]_vars

\* 'o' typed in the main menu has opened the submenu "_Op"
C17_Witness ==
    /\ mhist.key = "o"
    /\ Len(stack) = 2
    /\ stack[1].menu = M_Main
    /\ Top.menu = M_Recent
    /\ call.kind = "loop"

-----------------------------------------------------------------------------
Greatest(S) == CHOOSE i \in S : \A j \in S : i >= j

\* 2 + the longest label of the menu as shown, over all its children
ShownWidth(children) ==
    2 + Greatest({ DisplayLength(children[i].name) : i \in 1..Len(children) })

RECURSIVE AncestorWidths(_, _)
AncestorWidths(frames, d) ==
    IF d <= 1 THEN 0
    ELSE ShownWidth(frames[d - 1].menu) + AncestorWidths(frames, d - 1)

(* C18: submenu anchoring.  The width of a menu is 2 + the greatest display
   length (marker stripped) among the labels of all its children, and a
   submenu is anchored at its parent's x_origin + the parent's width: the
   open menu at depth d is anchored at the root's origin + the widths of all
   its open ancestors, however it was opened. *)
C18_SubmenuAnchoring ==
    \A d \in 1..Len(stack) :
        stack[d].x_offset = stack[1].x_offset + AncestorWidths(stack, d)

\* three menus deep: the main menu (width 4), its submenu (width 5), and the
\* submenu of that one, opened by its shortcut
C18_Witness ==
    /\ Len(stack) = 3
    /\ mhist.key = "B"
    /\ stack[1].x_offset = 1
    /\ stack[2].x_offset = 5
    /\ stack[3].x_offset = 10

-----------------------------------------------------------------------------
\* what a drawing call leaves alone: the front grid, the current colours, the
\* size and shape of the back grid; and it does not fault
DrawFrame ==
    /\ front' = front
    /\ fg' = fg /\ bg' = bg
    /\ size' = size
    /\ back'.size = back.size
    /\ Len(back'.cells) = Len(back.cells)
    /\ panic' = ""

\* the back grid after the step: Written(p) at the positions in Hit, the cell
\* it had everywhere else
BackBecomes(Hit(_), Written(_)) ==
    \A p \in Extent(back.size) :
        CellAt(back', p) = IF Hit(p) THEN Written(p) ELSE CellAt(back, p)

TextEffect(origin, s) ==
    LET Hit(p) == p[2] = origin[2] /\ p[1] >= origin[1] /\ p[1] - origin[1] < Len(s)
        Written(p) == Cell(s[p[1] - origin[1] + 1], fg, bg)
    IN DrawFrame /\ BackBecomes(Hit, Written)

CellEffect(pos, ch) ==
    LET Hit(p) == p = pos
        Written(p) == Cell(ch, fg, bg)
    IN DrawFrame /\ BackBecomes(Hit, Written)

RectEffect(origin, w, h) ==
    LET Hit(p) == /\ p[1] >= origin[1] /\ p[1] < origin[1] + w
                  /\ p[2] >= origin[2] /\ p[2] < origin[2] + h
        Written(p) == Cell(" ", fg, bg)
    IN DrawFrame /\ BackBecomes(Hit, Written)

(* C19: drawing never wraps or faults.  draw(Text(s)) at (ox, oy) sets the
   back cell at (ox + i, oy) to the i-th character of s with the current
   colours for exactly the i with ox + i < width and oy < height; it leaves
   every other back cell, the whole front grid and the current colours as
   they were, and does not fault: a character that falls outside the grid is
   dropped, never written to the start of the next row.  Likewise for
   set_cell and for draw(Rect(w, h)). *)
C19_DrawClips ==
    [][ /\ \A o \in Origins, s \in Texts : draw_text(o, s) => TextEffect(o, s)
        /\ \A p \in Coords : set_cell(p, "a") => CellEffect(p, "a")
        /\ \A o \in Origins, d \in RectDims :
              draw_rect(o, d[1], d[2]) => RectEffect(o, d[1], d[2])
      ]_vars

\* a text of two characters drawn at the last column of the first row: its
\* first character is there, the start of the next row is untouched
C19_Witness ==
    /\ size = <<MaxW, MaxH>>
    /\ CellAt(back, <<MaxW - 1, 0>>).ch = "H"
    /\ CellAt(back, <<0, 1>>) = DefaultCell
    /\ \A p \in Extent(size) : CellAt(back, p).ch # "i"

-----------------------------------------------------------------------------
\* each grid holds width * height cells, both grids have the buffer's size,
\* and no access has been out of range
SizeInvariant ==
    /\ Len(front.cells) = front.size[1] * front.size[2]
    /\ Len(back.cells) = back.size[1] * back.size[2]
    /\ front.size = size
    /\ back.size = size
    /\ panic = ""

\* grid g resized to new_size is g2: the row-major prefix kept, default cells after it
KeepsPrefix(g, g2, new_size) ==
    /\ g2.size = new_size
    /\ Len(g2.cells) = new_size[1] * new_size[2]
    /\ \A i \in 1..Len(g2.cells) :
          g2.cells[i] = IF i <= Len(g.cells) THEN g.cells[i] ELSE DefaultCell

(* C20: size invariants.  After any sequence of new, resize, set_cell, draw
   and render_ansi each grid has width * height cells and the front and back
   grids have the buffer's size, so the access of render_ansi to the front
   grid is never out of range; and resize keeps the row-major prefix of the
   cells of each grid and pads with default cells. *)
C20_SizeInvariants ==
    /\ []SizeInvariant
    /\ [][ \A new_size \in Sizes :
              resize(new_size) =>
                  /\ size' = new_size
                  /\ KeepsPrefix(front, front', new_size)
                  /\ KeepsPrefix(back, back', new_size)
         ]_vars

\* a render of a resized buffer that holds a drawn text
C20_Witness ==
    /\ Rendered
    /\ size = <<MaxW - 1, MaxH>>
    /\ Len(front.cells) = (MaxW - 1) * MaxH
    /\ \E p \in Extent(size) : CellAt(front, p).ch = "H"

-----------------------------------------------------------------------------
(* C21: only Left and Right change the MenuBar's selection.  Enter, every
   character key (whether or not it matches a shortcut) and every other key
   leave selection_index as it was, and no key changes the menu sequence; so
   the menu a shortcut resolves to need not be the one at selection_index. *)
C21_OnlyArrowsSelect ==
    [][ /\ bar'.menus = bar.menus
        /\ bhist'.key \notin {"Right", "Left"} =>
              bar'.selection_index = bar.selection_index
      ]_vars

\* 'e' resolved to the second menu while the selection stayed on the first
C21_Witness ==
    /\ Len(bar.menus) = 3
    /\ bhist.key = "e"
    /\ bhist.from = 0
    /\ bar.selection_index = 0
    /\ bar.menus[2].name = L_Edit
    /\ bhist.ret # None
    /\ Unwrap(bhist.ret).menu = bar.menus[2].menu
    /\ Unwrap(bhist.ret).menu # bar.menus[1].menu

=============================================================================
